---- MODULE Spec2Model ----
(***************************************************************************)
(* StoryComposer2: the document model of src/src/main.rs                   *)
(* (StoryComposerApp: fragments, compose, undo/redo history, search and    *)
(* replace, load/save) and the part of eframe::App::update that calls it.  *)
(*                                                                         *)
(* A text is the sequence of the bytes of its UTF-8 encoding (Rust String).*)
(* An Option<T> is <<>> (None) or <<x>> (Some(x)).                         *)
(* A step of the model is one frame of update() with one input event.      *)
(***************************************************************************)
EXTENDS Integers, Sequences, FiniteSets, TLC

\* ------------------------------------------------------------------ sizes
\* MAX_PLOTS (src/src/main.rs:8, 1024 there) and MAX_UNDO_HISTORY
\* (src/src/main.rs:9, 100 there) are scaled down so that both caps are hit.
MAX_PLOTS == 3
MAX_UNDO_HISTORY == 2
\* input events (clicks, key presses, text edits) per run
MaxInputs == 4
\* characters of a fragment text and of a needle in the search specification
MaxTextChars == 3
MaxNeedleChars == 2

\* ------------------------------------------------------------------ texts
\* "\n\n---\n\n"
SEPARATOR == <<10, 10, 45, 45, 45, 10, 10>>
\* the text typed into a fragment or the composed text: "a\n" (a file can hold "a")
EditTexts == { <<97, 10>> }
\* search / replacement strings typed into the dialogs: "", "a"
DialogTexts == { <<>>, <<97>> }
\* the paths the file dialogs can return
Paths == { "p.scrf" }

RECURSIVE SeqMax(_)
SeqMax(ns) == IF ns = <<>> THEN 0
              ELSE LET m == SeqMax(Tail(ns)) IN IF Head(ns) > m THEN Head(ns) ELSE m

\* Vec::insert(at, x) with at counted from 0, at <= len
Insert(v, at, x) == SubSeq(v, 1, at) \o <<x>> \o SubSeq(v, at + 1, Len(v))
\* Vec::remove(at) with at counted from 0, at < len
Remove(v, at) == SubSeq(v, 1, at) \o SubSeq(v, at + 2, Len(v))
\* slice::swap(i, j) with i, j counted from 0, both < len
Swap(v, i, j) == [v EXCEPT ![i + 1] = v[j + 1], ![j + 1] = v[i + 1]]

\* ------------------------------------------------------------------ str
\* str::is_char_boundary: 0 and len are boundaries, a continuation byte
\* (10xxxxxx, 128..191) is not
is_char_boundary(text, i) ==
    \/ i = 0
    \/ i = Len(text)
    \/ i < Len(text) /\ ~(text[i + 1] \in 128..191)

\* does needle occur in text at byte offset pos
occurs_at(text, needle, pos) ==
    /\ pos + Len(needle) <= Len(text)
    /\ SubSeq(text, pos + 1, pos + Len(needle)) = needle

\* text[start..].find(needle), as an offset into text; -1 for None
find_from(text, needle, start) ==
    LET hits == { p \in start..Len(text) : occurs_at(text, needle, p) }
    IN IF hits = {} THEN -1 ELSE CHOOSE p \in hits : \A q \in hits : p <= q

\* the while-let loop of search over one text; the slice text[start..] panics
\* when start is not a char boundary of text
RECURSIVE scan(_, _, _, _)
scan(text, needle, start, acc) ==
    IF ~is_char_boundary(text, start)
    THEN [results |-> acc, panic |-> TRUE]
    ELSE LET actual_start == find_from(text, needle, start)
         IN IF actual_start = -1
            THEN [results |-> acc, panic |-> FALSE]
            ELSE scan(text, needle, actual_start + 1,
                      Append(acc, [start |-> actual_start,
                                   end |-> actual_start + Len(needle)]))

\* str::replace(from, to) for a non-empty from: left to right, non-overlapping
RECURSIVE str_replace_at(_, _, _, _)
str_replace_at(text, from, to, pos) ==
    IF pos >= Len(text) THEN <<>>
    ELSE IF occurs_at(text, from, pos)
         THEN to \o str_replace_at(text, from, to, pos + Len(from))
         ELSE <<text[pos + 1]>> \o str_replace_at(text, from, to, pos + 1)

str_replace(text, from, to) == str_replace_at(text, from, to, 0)

\* [&str].join(sep)
RECURSIVE join(_, _)
join(texts, sep) ==
    IF texts = <<>> THEN <<>>
    ELSE IF Len(texts) = 1 THEN texts[1]
    ELSE texts[1] \o sep \o join(Tail(texts), sep)

\* ------------------------------------------------------------------ JSON
\* serde_json string escaping of the bytes the model uses: '"' and '\' get a
\* backslash, "\n" becomes the two bytes '\' 'n'; other bytes are copied
RECURSIVE json_escape(_)
json_escape(text) ==
    IF text = <<>> THEN <<>>
    ELSE LET c == Head(text)
         IN (IF c = 10 THEN <<92, 110>>
             ELSE IF c = 34 THEN <<92, 34>>
             ELSE IF c = 92 THEN <<92, 92>>
             ELSE <<c>>) \o json_escape(Tail(text))

RECURSIVE json_unescape(_)
json_unescape(text) ==
    IF text = <<>> THEN <<>>
    ELSE IF Head(text) = 92 /\ Len(text) >= 2
         THEN <<(IF text[2] = 110 THEN 10 ELSE text[2])>> \o json_unescape(Tail(Tail(text)))
         ELSE <<Head(text)>> \o json_unescape(Tail(text))

\* serde_json::to_string_pretty(&SaveData): the file as the JSON value written
to_string_pretty(save_data) ==
    [kind |-> "json",
     plots |-> [i \in 1..Len(save_data.plots) |->
                  [id |-> save_data.plots[i].id,
                   text |-> json_escape(save_data.plots[i].text)]],
     composed_text |-> json_escape(save_data.composed_text)]

\* from_str that does not decode the escapes of the strings
from_str_keeps_escapes(content) ==
    [plots |-> [i \in 1..Len(content.plots) |->
                  [id |-> content.plots[i].id, text |-> content.plots[i].text]],
     composed_text |-> content.composed_text]

\* serde_json::from_str::<SaveData>(&content), defined when content is JSON
from_str(content) ==
    [plots |-> [i \in 1..Len(content.plots) |->
                  [id |-> content.plots[i].id,
                   text |-> json_unescape(content.plots[i].text)]],
     composed_text |-> json_unescape(content.composed_text)]

NoFile == [kind |-> "absent", plots |-> <<>>, composed_text |-> <<>>]
Malformed == [kind |-> "malformed", plots |-> <<>>, composed_text |-> <<>>]

\* the outcomes of std::fs::write
WriteOutcomes == { "ok", "refused", "torn" }

\* what a path can hold before the program first writes it
ExternalFiles ==
    { NoFile,
      Malformed,
      [kind |-> "json", plots |-> <<>>, composed_text |-> <<>>],
      [kind |-> "json", plots |-> <<[id |-> 0, text |-> <<97>>]>>,
       composed_text |-> <<97>>] }

\* ------------------------------------------------------------------ state
VARIABLES
    plots,              \* Vec<PlotFragment>: sequence of [id, text]
    composed_text,      \* String
    next_id,            \* usize
    current_file_path,  \* Option<PathBuf>
    undo_stack,         \* VecDeque<AppState>, back = last element
    redo_stack,         \* VecDeque<AppState>
    search_text,        \* String
    replace_text,       \* String
    search_results,     \* Vec<SearchResult>
    delete_confirm_id,  \* Option<usize>
    pending_action,     \* Option<(usize, PlotAction)>
    is_dirty,           \* bool
    show_close_confirm, \* bool
    closed,             \* the window has been told to close
    panic,              \* "" while running, else the method that panicked
    files,              \* the file system: path -> content
    inputs,             \* number of input events handled so far
    g_last,             \* history: the last call that took effect
    g_pre,              \* history: the state before the last mutating command
    g_pre_undo,         \* history: the state before the last undo
    g_max_id,           \* history: largest id add_plot_after assigned, -1 if none
    g_dispatch,         \* history: the deferred action of this frame
    g_calls,            \* history: the rejected calls and the delete events of this frame
    g_saved,            \* history: the document at the last save or reset
    g_written,          \* history: path -> the document the program wrote there
    g_mutated,          \* history: a command pushed a snapshot since the last save or reset
    g_history,          \* history: the commands since the history was empty, while they form one line
    g_replaced          \* history: the document was replaced while the delete token was pending

vars == <<plots, composed_text, next_id, current_file_path, undo_stack,
          redo_stack, search_text, replace_text, search_results,
          delete_confirm_id, pending_action, is_dirty, show_close_confirm,
          closed, panic, files, inputs,
          g_last, g_pre, g_pre_undo, g_max_id, g_dispatch, g_calls,
          g_saved, g_written, g_mutated,
          g_history, g_replaced>>

\* the program as one record, so that the calls of a frame compose
Self ==
    [plots |-> plots, composed_text |-> composed_text, next_id |-> next_id,
     current_file_path |-> current_file_path, undo_stack |-> undo_stack,
     redo_stack |-> redo_stack, search_text |-> search_text,
     replace_text |-> replace_text, search_results |-> search_results,
     delete_confirm_id |-> delete_confirm_id, pending_action |-> pending_action,
     is_dirty |-> is_dirty, show_close_confirm |-> show_close_confirm,
     closed |-> closed, panic |-> panic, files |-> files, inputs |-> inputs,
     g_last |-> g_last, g_pre |-> g_pre, g_pre_undo |-> g_pre_undo,
     g_max_id |-> g_max_id, g_dispatch |-> g_dispatch,
     g_calls |-> g_calls, g_saved |-> g_saved, g_written |-> g_written,
     g_mutated |-> g_mutated, g_history |-> g_history,
     g_replaced |-> g_replaced]

Install(s) ==
    /\ plots' = s.plots
    /\ composed_text' = s.composed_text
    /\ next_id' = s.next_id
    /\ current_file_path' = s.current_file_path
    /\ undo_stack' = s.undo_stack
    /\ redo_stack' = s.redo_stack
    /\ search_text' = s.search_text
    /\ replace_text' = s.replace_text
    /\ search_results' = s.search_results
    /\ delete_confirm_id' = s.delete_confirm_id
    /\ pending_action' = s.pending_action
    /\ is_dirty' = s.is_dirty
    /\ show_close_confirm' = s.show_close_confirm
    /\ closed' = s.closed
    /\ panic' = s.panic
    /\ files' = s.files
    /\ inputs' = s.inputs
    /\ g_last' = s.g_last
    /\ g_pre' = s.g_pre
    /\ g_pre_undo' = s.g_pre_undo
    /\ g_max_id' = s.g_max_id
    /\ g_dispatch' = s.g_dispatch
    /\ g_calls' = s.g_calls
    /\ g_saved' = s.g_saved
    /\ g_written' = s.g_written
    /\ g_mutated' = s.g_mutated
    /\ g_history' = s.g_history
    /\ g_replaced' = s.g_replaced

\* one input event of a frame
In(kind) == [kind |-> kind, path |-> "", write |-> "ok", text |-> <<>>,
             index |-> 0, act |-> ""]

\* StoryComposerApp::new, on a file system that holds disk
new(disk) ==
    [plots |-> <<[id |-> 0, text |-> <<>>]>>, composed_text |-> <<>>,
     next_id |-> 1, current_file_path |-> <<>>, undo_stack |-> <<>>,
     redo_stack |-> <<>>, search_text |-> <<>>, replace_text |-> <<>>,
     search_results |-> <<>>, delete_confirm_id |-> <<>>,
     pending_action |-> <<>>, is_dirty |-> FALSE, show_close_confirm |-> FALSE,
     closed |-> FALSE, panic |-> "", files |-> disk,
     inputs |-> 0, g_last |-> "new", g_pre |-> <<>>, g_pre_undo |-> <<>>,
     g_max_id |-> -1, g_dispatch |-> <<>>, g_calls |-> <<>>,
     g_saved |-> [plots |-> <<[id |-> 0, text |-> <<>>]>>, composed_text |-> <<>>],
     g_written |-> [p \in DOMAIN disk |-> <<>>], g_mutated |-> FALSE,
     g_history |-> <<[pre |-> <<>>, undone |-> 0, top |-> <<>>]>>,
     g_replaced |-> FALSE]

\* AppState { plots, composed_text } of the current document
AppState(s) == [plots |-> s.plots, composed_text |-> s.composed_text]

\* the fields a failing load or save and a rejected command must leave alone
Controller(s) ==
    [plots |-> s.plots, composed_text |-> s.composed_text, next_id |-> s.next_id,
     undo_stack |-> s.undo_stack, redo_stack |-> s.redo_stack,
     is_dirty |-> s.is_dirty, current_file_path |-> s.current_file_path]

\* record that call or event name took state b to state a in this frame;
\* effect says whether the call did what it is for
Log(name, effect, b, a) ==
    [a EXCEPT !.g_calls = Append(a.g_calls,
        [name |-> name, effect |-> effect,
         before |-> Controller(b), after |-> Controller(a)])]

\* ------------------------------------------------------------------ history
\* save_state_for_undo without redo_stack.clear()
save_state_for_undo_keeps_redo(s) ==
    LET pushed == Append(s.undo_stack, AppState(s))
    IN [s EXCEPT !.undo_stack = IF Len(pushed) > MAX_UNDO_HISTORY
                                 THEN Tail(pushed) ELSE pushed,
                 !.is_dirty = TRUE]

\* save_state_for_undo without the pop_front
save_state_for_undo_uncapped(s) ==
    [s EXCEPT !.undo_stack = Append(s.undo_stack, AppState(s)),
              !.redo_stack = <<>>,
              !.is_dirty = TRUE]

\* save_state_for_undo with pop_back in place of pop_front
save_state_for_undo_evicts_newest(s) ==
    LET pushed == Append(s.undo_stack, AppState(s))
    IN [s EXCEPT !.undo_stack = IF Len(pushed) > MAX_UNDO_HISTORY
                                 THEN SubSeq(pushed, 1, Len(pushed) - 1) ELSE pushed,
                 !.redo_stack = <<>>,
                 !.is_dirty = TRUE]

save_state_for_undo(s) ==
    LET pushed == Append(s.undo_stack, AppState(s))
    IN [s EXCEPT !.undo_stack = IF Len(pushed) > MAX_UNDO_HISTORY
                                 THEN Tail(pushed) ELSE pushed,
                 !.redo_stack = <<>>,
                 !.is_dirty = TRUE]

\* undo with pop_front in place of pop_back: it restores the oldest snapshot
undo_pops_front(s) ==
    IF s.undo_stack = <<>> THEN s
    ELSE LET state == s.undo_stack[1]
             pushed == Append(s.redo_stack, AppState(s))
         IN [s EXCEPT !.undo_stack = Tail(s.undo_stack),
                      !.redo_stack = IF Len(pushed) > MAX_UNDO_HISTORY
                                     THEN Tail(pushed) ELSE pushed,
                      !.plots = state.plots,
                      !.composed_text = state.composed_text]

\* undo that pushes the current document onto redo_stack before it looks at
\* undo_stack
undo_pushes_redo_first(s) ==
    LET pushed == Append(s.redo_stack, AppState(s))
        s1 == [s EXCEPT !.redo_stack = IF Len(pushed) > MAX_UNDO_HISTORY
                                       THEN Tail(pushed) ELSE pushed]
    IN IF s.undo_stack = <<>> THEN s1
       ELSE LET state == s.undo_stack[Len(s.undo_stack)]
            IN [s1 EXCEPT !.undo_stack = SubSeq(s.undo_stack, 1, Len(s.undo_stack) - 1),
                          !.plots = state.plots,
                          !.composed_text = state.composed_text]

\* undo that marks the document dirty
undo_sets_dirty(s) ==
    IF s.undo_stack = <<>> THEN s
    ELSE LET state == s.undo_stack[Len(s.undo_stack)]
             pushed == Append(s.redo_stack, AppState(s))
         IN [s EXCEPT !.undo_stack = SubSeq(s.undo_stack, 1, Len(s.undo_stack) - 1),
                      !.redo_stack = IF Len(pushed) > MAX_UNDO_HISTORY
                                     THEN Tail(pushed) ELSE pushed,
                      !.plots = state.plots,
                      !.composed_text = state.composed_text,
                      !.is_dirty = TRUE]

\* undo that restores the fragments but not composed_text
undo_keeps_composed_text(s) ==
    IF s.undo_stack = <<>> THEN s
    ELSE LET state == s.undo_stack[Len(s.undo_stack)]
             pushed == Append(s.redo_stack, AppState(s))
         IN [s EXCEPT !.undo_stack = SubSeq(s.undo_stack, 1, Len(s.undo_stack) - 1),
                      !.redo_stack = IF Len(pushed) > MAX_UNDO_HISTORY
                                     THEN Tail(pushed) ELSE pushed,
                      !.plots = state.plots]

undo(s) ==
    IF s.undo_stack = <<>> THEN s
    ELSE LET state == s.undo_stack[Len(s.undo_stack)]
             pushed == Append(s.redo_stack, AppState(s))
         IN [s EXCEPT !.undo_stack = SubSeq(s.undo_stack, 1, Len(s.undo_stack) - 1),
                      !.redo_stack = IF Len(pushed) > MAX_UNDO_HISTORY
                                     THEN Tail(pushed) ELSE pushed,
                      !.plots = state.plots,
                      !.composed_text = state.composed_text]

\* redo that pushes the popped snapshot, not the current state, onto undo_stack
redo_pushes_popped(s) ==
    IF s.redo_stack = <<>> THEN s
    ELSE LET state == s.redo_stack[Len(s.redo_stack)]
             pushed == Append(s.undo_stack, state)
         IN [s EXCEPT !.redo_stack = SubSeq(s.redo_stack, 1, Len(s.redo_stack) - 1),
                      !.undo_stack = IF Len(pushed) > MAX_UNDO_HISTORY
                                     THEN Tail(pushed) ELSE pushed,
                      !.plots = state.plots,
                      !.composed_text = state.composed_text]

redo(s) ==
    IF s.redo_stack = <<>> THEN s
    ELSE LET state == s.redo_stack[Len(s.redo_stack)]
             pushed == Append(s.undo_stack, AppState(s))
         IN [s EXCEPT !.redo_stack = SubSeq(s.redo_stack, 1, Len(s.redo_stack) - 1),
                      !.undo_stack = IF Len(pushed) > MAX_UNDO_HISTORY
                                     THEN Tail(pushed) ELSE pushed,
                      !.plots = state.plots,
                      !.composed_text = state.composed_text]

\* ------------------------------------------------------------------ commands
\* compose that puts the separator after every fragment, the last one included
compose_trailing_separator(s) ==
    LET s1 == save_state_for_undo(s)
    IN [s1 EXCEPT !.composed_text =
            join([i \in 1..Len(s1.plots) |-> s1.plots[i].text \o SEPARATOR], <<>>)]

\* compose that appends the joined texts to what composed_text holds
compose_appends(s) ==
    LET s1 == save_state_for_undo(s)
    IN [s1 EXCEPT !.composed_text = s1.composed_text \o
            join([i \in 1..Len(s1.plots) |-> s1.plots[i].text], SEPARATOR)]

\* compose without the call of save_state_for_undo
compose_without_snapshot(s) ==
    [s EXCEPT !.composed_text =
        join([i \in 1..Len(s.plots) |-> s.plots[i].text], SEPARATOR)]

compose(s) ==
    LET s1 == save_state_for_undo(s)
    IN [s1 EXCEPT !.composed_text =
            join([i \in 1..Len(s1.plots) |-> s1.plots[i].text], SEPARATOR)]

\* new_document without undo_stack.clear()
new_document_keeps_undo_stack(s) ==
    LET s1 == save_state_for_undo(s)
    IN [s1 EXCEPT !.plots = <<[id |-> 0, text |-> <<>>]>>,
                  !.composed_text = <<>>,
                  !.next_id = 1,
                  !.current_file_path = <<>>,
                  !.redo_stack = <<>>,
                  !.is_dirty = FALSE]

new_document(s) ==
    LET s1 == save_state_for_undo(s)
    IN [s1 EXCEPT !.plots = <<[id |-> 0, text |-> <<>>]>>,
                  !.composed_text = <<>>,
                  !.next_id = 1,
                  !.current_file_path = <<>>,
                  !.undo_stack = <<>>,
                  !.redo_stack = <<>>,
                  !.is_dirty = FALSE]

\* add_plot_after that brings composed_text up to date with the new list
add_plot_after_recomposes(s, index) ==
    IF Len(s.plots) >= MAX_PLOTS THEN s
    ELSE LET s1 == save_state_for_undo(s)
             new_plot == [id |-> s1.next_id, text |-> <<>>]
             s2 == [s1 EXCEPT !.next_id = s1.next_id + 1]
         IN IF index + 1 > Len(s2.plots)
            THEN [s2 EXCEPT !.panic = "add_plot_after"]
            ELSE LET v == Insert(s2.plots, index + 1, new_plot)
                 IN [s2 EXCEPT !.plots = v,
                               !.composed_text =
                                    join([i \in 1..Len(v) |-> v[i].text], SEPARATOR)]

\* add_plot_after that inserts the new fragment before fragment index
add_plot_after_inserts_before(s, index) ==
    IF Len(s.plots) >= MAX_PLOTS THEN s
    ELSE LET s1 == save_state_for_undo(s)
             new_plot == [id |-> s1.next_id, text |-> <<>>]
             s2 == [s1 EXCEPT !.next_id = s1.next_id + 1]
         IN IF index + 1 > Len(s2.plots)
            THEN [s2 EXCEPT !.panic = "add_plot_after"]
            ELSE [s2 EXCEPT !.plots = Insert(s2.plots, index, new_plot)]

\* Vec::insert panics when index + 1 > len
add_plot_after(s, index) ==
    IF Len(s.plots) >= MAX_PLOTS THEN s
    ELSE LET s1 == save_state_for_undo(s)
             new_plot == [id |-> s1.next_id, text |-> <<>>]
             s2 == [s1 EXCEPT !.next_id = s1.next_id + 1]
         IN IF index + 1 > Len(s2.plots)
            THEN [s2 EXCEPT !.panic = "add_plot_after"]
            ELSE [s2 EXCEPT !.plots = Insert(s2.plots, index + 1, new_plot)]

\* Vec::remove panics when index >= len
remove_plot(s, index) ==
    IF Len(s.plots) <= 1 THEN s
    ELSE LET s1 == save_state_for_undo(s)
         IN IF index >= Len(s1.plots)
            THEN [s1 EXCEPT !.panic = "remove_plot"]
            ELSE [s1 EXCEPT !.plots = Remove(s1.plots, index)]

\* move_plot_up that moves fragment index to the top of the list
move_plot_up_to_top(s, index) ==
    IF index = 0 THEN s
    ELSE LET s1 == save_state_for_undo(s)
         IN IF index >= Len(s1.plots)
            THEN [s1 EXCEPT !.panic = "move_plot_up"]
            ELSE [s1 EXCEPT !.plots = Insert(Remove(s1.plots, index), 0, s1.plots[index + 1])]

\* slice::swap panics when index >= len
move_plot_up(s, index) ==
    IF index = 0 THEN s
    ELSE LET s1 == save_state_for_undo(s)
         IN IF index >= Len(s1.plots)
            THEN [s1 EXCEPT !.panic = "move_plot_up"]
            ELSE [s1 EXCEPT !.plots = Swap(s1.plots, index, index - 1)]

\* move_plot_down that calls save_state_for_undo before its guard
move_plot_down_snapshot_first(s, index) ==
    IF Len(s.plots) = 0 THEN [s EXCEPT !.panic = "move_plot_down"]
    ELSE LET s1 == save_state_for_undo(s)
         IN IF index >= Len(s.plots) - 1 THEN s1
            ELSE [s1 EXCEPT !.plots = Swap(s1.plots, index, index + 1)]

\* len() - 1 on an empty list overflows: a debug build panics there, a release
\* build wraps, passes the guard and panics in slice::swap
move_plot_down(s, index) ==
    IF Len(s.plots) = 0 THEN [s EXCEPT !.panic = "move_plot_down"]
    ELSE IF index >= Len(s.plots) - 1 THEN s
    ELSE LET s1 == save_state_for_undo(s)
         IN [s1 EXCEPT !.plots = Swap(s1.plots, index, index + 1)]

\* the file after std::fs::write with outcome write: written, left alone (the
\* file could not be opened) or cut short (the write failed part-way)
fs_write(s, path, json, write) ==
    CASE write = "ok" -> [s EXCEPT !.files = [s.files EXCEPT ![path] = json]]
      [] write = "refused" -> s
      [] write = "torn" ->
            [s EXCEPT !.files = [s.files EXCEPT ![path] = Malformed],
                      !.g_written = [s.g_written EXCEPT ![path] = <<>>]]

\* save_file that clears is_dirty before the write
save_file_clears_dirty_first(s, path, write) ==
    LET save_data == [plots |-> s.plots, composed_text |-> s.composed_text]
        json == to_string_pretty(save_data)
        s1 == fs_write([s EXCEPT !.is_dirty = FALSE], path, json, write)
    IN IF write # "ok" THEN [ok |-> FALSE, app |-> s1]
       ELSE [ok |-> TRUE, app |-> s1]

\* Result<(), String>: ok says whether Ok(()) was returned; write is the
\* outcome of std::fs::write
save_file(s, path, write) ==
    LET save_data == [plots |-> s.plots, composed_text |-> s.composed_text]
        json == to_string_pretty(save_data)
        s1 == fs_write(s, path, json, write)
    IN IF write # "ok" THEN [ok |-> FALSE, app |-> s1]
       ELSE [ok |-> TRUE, app |-> [s1 EXCEPT !.is_dirty = FALSE]]

\* load_file that pushes the snapshot before it parses the content
load_file_pushes_before_parse(s, path) ==
    LET content == s.files[path]
    IN IF content.kind = "absent" THEN [ok |-> FALSE, app |-> s]
       ELSE IF content.kind # "json"
       THEN [ok |-> FALSE, app |-> save_state_for_undo(s)]
       ELSE LET save_data == from_str(content)
                s1 == save_state_for_undo(s)
            IN [ok |-> TRUE,
                app |-> [s1 EXCEPT
                    !.plots = save_data.plots,
                    !.composed_text = save_data.composed_text,
                    !.next_id = SeqMax([i \in 1..Len(save_data.plots) |->
                                          save_data.plots[i].id]) + 1]]

load_file(s, path) ==
    LET content == s.files[path]
    IN IF content.kind = "absent" THEN [ok |-> FALSE, app |-> s]
       ELSE IF content.kind # "json" THEN [ok |-> FALSE, app |-> s]
       ELSE LET save_data == from_str(content)
                s1 == save_state_for_undo(s)
            IN [ok |-> TRUE,
                app |-> [s1 EXCEPT
                    !.plots = save_data.plots,
                    !.composed_text = save_data.composed_text,
                    !.next_id = SeqMax([i \in 1..Len(save_data.plots) |->
                                          save_data.plots[i].id]) + 1]]

\* the results of one text, tagged with its location
tagged(results, location, plot_index) ==
    [k \in 1..Len(results) |->
        [location |-> location, plot_index |-> plot_index,
         start |-> results[k].start, end |-> results[k].end]]

\* the for loop over the fragments, from fragment i (counted from 1)
RECURSIVE search_plots(_, _, _)
search_plots(s, i, acc) ==
    IF i > Len(s.plots) THEN [results |-> acc, panic |-> FALSE]
    ELSE LET r == scan(s.plots[i].text, s.search_text, 0, <<>>)
             found == acc \o tagged(r.results, "Plot", <<i - 1>>)
         IN IF r.panic THEN [results |-> found, panic |-> TRUE]
            ELSE search_plots(s, i + 1, found)

search(s) ==
    IF s.search_text = <<>> THEN [s EXCEPT !.search_results = <<>>]
    ELSE LET in_plots == search_plots(s, 1, <<>>)
             in_composed == scan(s.composed_text, s.search_text, 0, <<>>)
         IN IF in_plots.panic
            THEN [s EXCEPT !.search_results = in_plots.results, !.panic = "search"]
            ELSE [s EXCEPT
                    !.search_results = in_plots.results
                        \o tagged(in_composed.results, "ComposedText", <<>>),
                    !.panic = IF in_composed.panic THEN "search" ELSE ""]

\* replace_all that clears search_results before it tests the needle
replace_all_clears_results_first(s) ==
    IF s.search_text = <<>> THEN [s EXCEPT !.search_results = <<>>]
    ELSE LET s1 == save_state_for_undo(s)
         IN [s1 EXCEPT
                !.plots = [i \in 1..Len(s1.plots) |->
                    [s1.plots[i] EXCEPT !.text =
                        str_replace(s1.plots[i].text, s1.search_text, s1.replace_text)]],
                !.composed_text =
                    str_replace(s1.composed_text, s1.search_text, s1.replace_text),
                !.search_results = <<>>]

\* replace_all that leaves composed_text alone
replace_all_fragments_only(s) ==
    IF s.search_text = <<>> THEN s
    ELSE LET s1 == save_state_for_undo(s)
         IN [s1 EXCEPT
                !.plots = [i \in 1..Len(s1.plots) |->
                    [s1.plots[i] EXCEPT !.text =
                        str_replace(s1.plots[i].text, s1.search_text, s1.replace_text)]],
                !.search_results = <<>>]

replace_all(s) ==
    IF s.search_text = <<>> THEN s
    ELSE LET s1 == save_state_for_undo(s)
         IN [s1 EXCEPT
                !.plots = [i \in 1..Len(s1.plots) |->
                    [s1.plots[i] EXCEPT !.text =
                        str_replace(s1.plots[i].text, s1.search_text, s1.replace_text)]],
                !.composed_text =
                    str_replace(s1.composed_text, s1.search_text, s1.replace_text),
                !.search_results = <<>>]

\* ------------------------------------------------------------------ history variables
\* the commands that push a snapshot
Mutating == { "add_plot_after", "remove_plot", "move_plot_up", "move_plot_down",
              "compose", "replace_all", "load_file" }

Snapshot(s, cmd) ==
    [cmd |-> cmd, plots |-> s.plots, composed_text |-> s.composed_text, next_id |-> s.next_id,
     undo_stack |-> s.undo_stack, redo_stack |-> s.redo_stack,
     max_id |-> s.g_max_id]

\* the record of a line of history: pre holds the document before each
\* effective mutating command since the stacks were last empty, undone counts
\* the undos not yet redone, top is the document before the first undo.
\* The record is dropped, until the next new_document, when the calls leave
\* the pattern "commands with edits between them, then undos and redos":
\* more commands than the cap, a command after an undo, an edit after an undo
Recorded(name, b) ==
    IF name = "new_document" THEN <<[pre |-> <<>>, undone |-> 0, top |-> <<>>]>>
    ELSE IF b.g_history = <<>> THEN <<>>
    ELSE LET h == b.g_history[1]
         IN CASE name \in Mutating ->
                    IF h.top # <<>> \/ Len(h.pre) >= MAX_UNDO_HISTORY THEN <<>>
                    ELSE <<[h EXCEPT !.pre = Append(h.pre, AppState(b))]>>
              [] name = "edit" -> IF h.top # <<>> THEN <<>> ELSE <<h>>
              [] name = "undo" ->
                    <<[h EXCEPT !.undone = h.undone + 1,
                                !.top = IF h.top = <<>> THEN <<AppState(b)>> ELSE h.top]>>
              [] name = "redo" -> <<[h EXCEPT !.undone = h.undone - 1]>>
              [] OTHER -> <<h>>

\* record that call name took state b to state a
Note(name, b, a) ==
    IF a.panic # ""
    THEN [a EXCEPT !.g_last = "panic", !.g_pre = <<>>, !.g_pre_undo = <<>>]
    ELSE [a EXCEPT
            !.g_last = name,
            !.g_mutated = IF name \in Mutating THEN TRUE
                          ELSE IF name \in {"save_file", "new_document"} THEN FALSE
                          ELSE b.g_mutated,
            !.g_saved = IF name \in {"save_file", "new_document"} THEN AppState(a)
                        ELSE b.g_saved,
            !.g_written = IF name = "save_file"
                          THEN [b.g_written EXCEPT ![a.current_file_path[1]] = <<AppState(a)>>]
                          ELSE b.g_written,
            !.g_pre = IF name \in Mutating \cup {"new_document"}
                      THEN <<Snapshot(b, name)>>
                      ELSE IF name = "undo" /\ b.g_last \in Mutating THEN b.g_pre
                      ELSE <<>>,
            !.g_pre_undo = IF name = "undo" THEN <<Snapshot(b, name)>>
                           ELSE IF name = "redo" /\ b.g_last = "undo" THEN b.g_pre_undo
                           ELSE <<>>,
            !.g_max_id = IF name = "new_document" THEN -1
                         ELSE IF name = "add_plot_after" /\ b.next_id > b.g_max_id
                              THEN b.next_id
                         ELSE b.g_max_id,
            !.g_history = Recorded(name, b),
            !.g_replaced = IF name \in {"new_document", "load_file"}
                           THEN b.delete_confirm_id # <<>>
                           ELSE b.g_replaced]

\* a call that took effect becomes the last call; one that failed, or that its
\* guard rejected, is logged for this frame
Try(name, takes_effect, b, a) ==
    IF takes_effect \/ a.panic # "" THEN Note(name, b, a) ELSE Log(name, FALSE, b, a)

\* ------------------------------------------------------------------ update
\* Vec::iter().position(|p| p.id == id), as an Option
position(v, id) ==
    LET hits == { i \in 1..Len(v) : v[i].id = id }
    IN IF hits = {} THEN <<>>
       ELSE <<(CHOOSE i \in hits : \A j \in hits : i <= j) - 1>>

\* the save-as item, and the overwrite-save item when no path is set
save_as(s, in) ==
    LET r == save_file(s, in.path, in.write)
    IN Try("save_file", r.ok, s,
            IF r.ok THEN [r.app EXCEPT !.current_file_path = <<in.path>>] ELSE r.app)

\* the close request and the close confirmation window
close_confirm(s, in) ==
    IF s.panic # "" THEN s
    ELSE CASE in.kind = "close_request" ->
                IF s.is_dirty THEN [s EXCEPT !.show_close_confirm = TRUE]
                ELSE [s EXCEPT !.closed = TRUE]
           [] in.kind = "close_yes" /\ s.show_close_confirm ->
                Note("close", s, [s EXCEPT !.show_close_confirm = FALSE,
                                           !.is_dirty = FALSE,
                                           !.closed = TRUE])
           [] in.kind = "close_no" /\ s.show_close_confirm ->
                [s EXCEPT !.show_close_confirm = FALSE]
           [] OTHER -> s

menu_bar(s, in) ==
    IF s.panic # "" THEN s
    ELSE CASE in.kind = "compose" -> Note("compose", s, compose(s))
           [] in.kind = "new" -> Note("new_document", s, new_document(s))
           [] in.kind = "save_as" -> save_as(s, in)
           [] in.kind = "save" ->
                IF s.current_file_path # <<>>
                THEN LET r == save_file(s, s.current_file_path[1], in.write)
                     IN Try("save_file", r.ok, s, r.app)
                ELSE save_as(s, in)
           [] in.kind = "open" ->
                LET r == load_file(s, in.path)
                IN Try("load_file", r.ok, s,
                        IF r.ok THEN [r.app EXCEPT !.current_file_path = <<in.path>>]
                        ELSE r.app)
           [] in.kind = "menu_undo" -> Try("undo", s.undo_stack # <<>>, s, undo(s))
           [] in.kind = "menu_redo" -> Try("redo", s.redo_stack # <<>>, s, redo(s))
           [] OTHER -> s

shortcuts(s, in) ==
    IF s.panic # "" THEN s
    ELSE CASE in.kind = "ctrl_z" -> Try("undo", s.undo_stack # <<>>, s, undo(s))
           [] in.kind = "ctrl_y" -> Try("redo", s.redo_stack # <<>>, s, redo(s))
           [] in.kind = "ctrl_s" ->
                IF s.current_file_path # <<>>
                THEN LET r == save_file(s, s.current_file_path[1], in.write)
                     IN Try("save_file", r.ok, s, r.app)
                ELSE s
           [] OTHER -> s

\* the search and the replace window share search_text
dialogs(s, in) ==
    IF s.panic # "" THEN s
    ELSE CASE in.kind = "edit_search_text" ->
                Note("edit_dialog", s, [s EXCEPT !.search_text = in.text])
           [] in.kind = "edit_replace_text" ->
                Note("edit_dialog", s, [s EXCEPT !.replace_text = in.text])
           [] in.kind = "search" -> Note("search", s, search(s))
           [] in.kind = "replace_all" ->
                Try("replace_all", s.search_text # <<>>, s, replace_all(s))
           [] OTHER -> s

\* the delete confirmation window whose "no" button leaves delete_confirm_id set
delete_dialog_no_keeps_token(s, in) ==
    IF s.panic # "" \/ s.delete_confirm_id = <<>> THEN s
    ELSE LET delete_id == s.delete_confirm_id[1]
             index == position(s.plots, delete_id)
         IN CASE in.kind = "delete_yes" ->
                   LET s0 == Log("delete_yes", TRUE, s, s)
                       s1 == IF index # <<>>
                             THEN LET r == remove_plot(s0, index[1])
                                  IN IF Len(s0.plots) > 1 /\ r.panic = ""
                                     THEN Log("remove_plot", TRUE, s0,
                                              Note("remove_plot", s0, r))
                                     ELSE Try("remove_plot", FALSE, s0, r)
                             ELSE s0
                   IN IF s1.panic # "" THEN s1
                      ELSE [s1 EXCEPT !.delete_confirm_id = <<>>]
              [] in.kind = "delete_no" -> Log("delete_no", TRUE, s, s)
              [] OTHER -> s

delete_dialog(s, in) ==
    IF s.panic # "" \/ s.delete_confirm_id = <<>> THEN s
    ELSE LET delete_id == s.delete_confirm_id[1]
             index == position(s.plots, delete_id)
         IN CASE in.kind = "delete_yes" ->
                   LET s0 == Log("delete_yes", TRUE, s, s)
                       s1 == IF index # <<>>
                             THEN LET r == remove_plot(s0, index[1])
                                  IN IF Len(s0.plots) > 1 /\ r.panic = ""
                                     THEN Log("remove_plot", TRUE, s0,
                                              Note("remove_plot", s0, r))
                                     ELSE Try("remove_plot", FALSE, s0, r)
                             ELSE s0
                   IN IF s1.panic # "" THEN s1
                      ELSE [s1 EXCEPT !.delete_confirm_id = <<>>]
              [] in.kind = "delete_no" ->
                   Log("delete_no", TRUE, s, [s EXCEPT !.delete_confirm_id = <<>>])
              [] OTHER -> s

\* "Collect pending action from previous frame"
dispatch_pending(s) ==
    IF s.panic # "" \/ s.pending_action = <<>> THEN s
    ELSE LET index == s.pending_action[1].index
             act == s.pending_action[1].act
             s0 == [s EXCEPT !.pending_action = <<>>,
                             !.g_dispatch = IF act = "RequestDelete" THEN <<>>
                                            ELSE <<[index |-> index, len |-> Len(s.plots),
                                                    act |-> act]>>]
         IN CASE act = "AddAfter" ->
                   Try("add_plot_after", Len(s0.plots) < MAX_PLOTS, s0,
                        add_plot_after(s0, index))
              [] act = "RequestDelete" ->
                   Log("request_delete", TRUE, s0,
                       [s0 EXCEPT !.delete_confirm_id = <<s.pending_action[1].id>>,
                                  !.g_replaced = FALSE])
              [] act = "MoveUp" ->
                   Try("move_plot_up", index # 0, s0, move_plot_up(s0, index))
              [] act = "MoveDown" ->
                   Try("move_plot_down", index < Len(s0.plots) - 1, s0,
                        move_plot_down(s0, index))

\* the buttons of fragment i set pending_action when their condition holds
plot_button(s, i, act) ==
    LET plots_len == Len(s.plots)
        plot_id == s.plots[i + 1].id
        allowed == CASE act = "AddAfter" -> plots_len < MAX_PLOTS
                     [] act = "RequestDelete" -> plots_len > 1
                     [] act = "MoveUp" -> i > 0
                     [] act = "MoveDown" -> i < plots_len - 1
    IN IF allowed
       THEN [s EXCEPT !.pending_action =
                <<[index |-> i, act |-> act,
                   id |-> IF act = "RequestDelete" THEN plot_id ELSE 0]>>]
       ELSE s

\* the fragment rows and the composed text of the central panel
central_panel(s, in) ==
    IF s.panic # "" THEN s
    ELSE CASE in.kind = "edit_plot" /\ in.index < Len(s.plots) ->
                Note("edit", s, [s EXCEPT !.plots[in.index + 1].text = in.text,
                                          !.is_dirty = TRUE])
           [] in.kind = "edit_composed" ->
                Note("edit", s, [s EXCEPT !.composed_text = in.text, !.is_dirty = TRUE])
           [] in.kind = "plot_button" /\ in.index < Len(s.plots) ->
                plot_button(s, in.index, in.act)
           [] OTHER -> s

\* the state in which the deferred action of this frame is applied
before_dispatch(s, in) ==
    delete_dialog(dialogs(shortcuts(menu_bar(close_confirm(
        [s EXCEPT !.g_dispatch = <<>>, !.g_calls = <<>>,
                  !.g_replaced = s.delete_confirm_id # <<>> /\ s.g_replaced],
        in), in), in), in), in)

\* the state in which the central panel of this frame is drawn
before_panel(s, in) == dispatch_pending(before_dispatch(s, in))

\* eframe::App::update with input in
update(s, in) == central_panel(before_panel(s, in), in)

\* is the widget of input in on screen, and does the input change it
Offered(s, in) ==
    CASE in.kind \in {"delete_yes", "delete_no"} -> s.delete_confirm_id # <<>>
      [] in.kind \in {"close_yes", "close_no"} -> s.show_close_confirm
      [] in.kind = "edit_search_text" -> in.text # s.search_text
      [] in.kind = "edit_replace_text" -> in.text # s.replace_text
      [] in.kind = "edit_plot" ->
            LET d == before_panel(s, in)
            IN d.panic = "" /\ in.index < Len(d.plots)
               /\ in.text # d.plots[in.index + 1].text
      [] in.kind = "edit_composed" ->
            LET d == before_panel(s, in)
            IN d.panic = "" /\ in.text # d.composed_text
      [] in.kind = "plot_button" ->
            LET d == before_panel(s, in)
            IN d.panic = "" /\ in.index < Len(d.plots)
      [] OTHER -> TRUE

\* ------------------------------------------------------------------ specification
Start(s) ==
    /\ plots = s.plots
    /\ composed_text = s.composed_text
    /\ next_id = s.next_id
    /\ current_file_path = s.current_file_path
    /\ undo_stack = s.undo_stack
    /\ redo_stack = s.redo_stack
    /\ search_text = s.search_text
    /\ replace_text = s.replace_text
    /\ search_results = s.search_results
    /\ delete_confirm_id = s.delete_confirm_id
    /\ pending_action = s.pending_action
    /\ is_dirty = s.is_dirty
    /\ show_close_confirm = s.show_close_confirm
    /\ closed = s.closed
    /\ panic = s.panic
    /\ files = s.files
    /\ inputs = s.inputs
    /\ g_last = s.g_last
    /\ g_pre = s.g_pre
    /\ g_pre_undo = s.g_pre_undo
    /\ g_max_id = s.g_max_id
    /\ g_dispatch = s.g_dispatch
    /\ g_calls = s.g_calls
    /\ g_saved = s.g_saved
    /\ g_written = s.g_written
    /\ g_mutated = s.g_mutated
    /\ g_history = s.g_history
    /\ g_replaced = s.g_replaced

Init == \E disk \in [Paths -> ExternalFiles] : Start(new(disk))

\* a frame with one input event
Frame(in) ==
    /\ panic = ""
    /\ ~closed
    /\ inputs < MaxInputs
    /\ Offered(Self, in)
    /\ Install([update(Self, in) EXCEPT !.inputs = inputs + 1])

\* a frame without input: it applies the deferred action
Idle ==
    /\ panic = ""
    /\ ~closed
    /\ pending_action # <<>>
    /\ Install(update(Self, In("none")))

CloseRequest == Frame(In("close_request"))
ClickCloseYes == Frame(In("close_yes"))
ClickCloseNo == Frame(In("close_no"))
ClickCompose == Frame(In("compose"))
ClickNew == Frame(In("new"))
ClickSaveAs == \E p \in Paths, w \in WriteOutcomes :
    Frame([In("save_as") EXCEPT !.path = p, !.write = w])
ClickSave == \E p \in Paths, w \in WriteOutcomes :
    Frame([In("save") EXCEPT !.path = p, !.write = w])
ClickOpen == \E p \in Paths : Frame([In("open") EXCEPT !.path = p])
MenuUndo == Frame(In("menu_undo"))
MenuRedo == Frame(In("menu_redo"))
CtrlZ == Frame(In("ctrl_z"))
CtrlY == Frame(In("ctrl_y"))
CtrlS == \E w \in WriteOutcomes : Frame([In("ctrl_s") EXCEPT !.write = w])
EditSearchText == \E t \in DialogTexts : Frame([In("edit_search_text") EXCEPT !.text = t])
EditReplaceText == \E t \in DialogTexts : Frame([In("edit_replace_text") EXCEPT !.text = t])
ClickSearch == Frame(In("search"))
ClickReplaceAll == Frame(In("replace_all"))
ClickDeleteYes == Frame(In("delete_yes"))
ClickDeleteNo == Frame(In("delete_no"))
EditPlot == \E i \in 0..(MAX_PLOTS - 1), t \in EditTexts :
    Frame([In("edit_plot") EXCEPT !.index = i, !.text = t])
EditComposed == \E t \in EditTexts : Frame([In("edit_composed") EXCEPT !.text = t])
ClickPlotButton ==
    \E i \in 0..(MAX_PLOTS - 1), act \in {"AddAfter", "RequestDelete", "MoveUp", "MoveDown"} :
        Frame([In("plot_button") EXCEPT !.index = i, !.act = act])

Next ==
    \/ Idle
    \/ CloseRequest
    \/ ClickCloseYes
    \/ ClickCloseNo
    \/ ClickCompose
    \/ ClickNew
    \/ ClickSaveAs
    \/ ClickSave
    \/ ClickOpen
    \/ MenuUndo
    \/ MenuRedo
    \/ CtrlZ
    \/ CtrlY
    \/ CtrlS
    \/ EditSearchText
    \/ EditReplaceText
    \/ ClickSearch
    \/ ClickReplaceAll
    \/ ClickDeleteYes
    \/ ClickDeleteNo
    \/ EditPlot
    \/ EditComposed
    \/ ClickPlotButton

Spec == Init /\ [][Next]_vars

\* ------------------------------------------------------------------ search specification
\* the characters "a" (1 byte) and HIRAGANA LETTER A (3 bytes: E3 81 82)
Chars == { <<97>>, <<227, 129, 130>> }

\* the texts of at most n characters
RECURSIVE Strings(_)
Strings(n) ==
    IF n = 0 THEN { <<>> }
    ELSE LET shorter == Strings(n - 1)
         IN shorter \cup { c \o t : c \in Chars, t \in shorter }

\* the user has typed a fragment text, a composed text and a needle
InitSearch ==
    \E disk \in [Paths -> {NoFile}], t \in Strings(MaxTextChars), c \in Strings(1),
       needle \in Strings(MaxNeedleChars) \ { <<>> } :
        Start([new(disk) EXCEPT !.plots[1].text = t, !.composed_text = c,
                                !.search_text = needle, !.is_dirty = TRUE,
                                !.g_last = "edit_dialog"])

NextSearch == ClickSearch

SpecSearch == InitSearch /\ [][NextSearch]_vars

\* ------------------------------------------------------------------ replace specification
\* the replacement texts "", "a", "b"
Replacements == { <<>>, <<97>>, <<98>> }

\* the user has added a second fragment and typed the texts of both fragments,
\* a composed text, a needle (possibly empty) and a replacement
InitReplace ==
    \E disk \in [Paths -> {NoFile}], t \in Strings(MaxTextChars), c \in Strings(1),
       needle \in Strings(MaxNeedleChars), to \in Replacements :
        LET s0 == new(disk)
            s1 == Note("add_plot_after", s0, add_plot_after(s0, 0))
        IN Start([s1 EXCEPT !.plots[1].text = t, !.plots[2].text = <<97, 97>>,
                            !.composed_text = c, !.search_text = needle,
                            !.replace_text = to, !.is_dirty = TRUE,
                            !.g_last = "edit_dialog", !.g_pre = <<>>])

NextReplace == ClickSearch \/ ClickReplaceAll \/ EditSearchText \/ CtrlZ

SpecReplace == InitReplace /\ [][NextReplace]_vars

\* ------------------------------------------------------------------ shared-id specification
\* a project file in which two fragments carry the same id, as save_file writes
\* it once add_plot_after has reused an id
SharedIdFile ==
    [kind |-> "json",
     plots |-> <<[id |-> 0, text |-> <<97>>], [id |-> 0, text |-> <<>>]>>,
     composed_text |-> <<>>]

InitSharedIds == \E disk \in [Paths -> {SharedIdFile}] : Start(new(disk))

SpecSharedIds == InitSharedIds /\ [][Next]_vars

\* ------------------------------------------------------------------ large-file specification
\* a project file that holds one fragment more than MAX_PLOTS
LargeFile ==
    [kind |-> "json",
     plots |-> [i \in 1..(MAX_PLOTS + 1) |-> [id |-> i - 1, text |-> <<>>]],
     composed_text |-> <<>>]

InitLargeFile == \E disk \in [Paths -> {LargeFile}] : Start(new(disk))

SpecLargeFile == InitLargeFile /\ [][Next]_vars

\* ------------------------------------------------------------------ claims
\* the program runs and the run has a further frame with an input: the states
\* in which a command can be called
Live == panic = "" /\ ~closed /\ inputs < MaxInputs

\* n undos in a row
RECURSIVE undo_n(_, _)
undo_n(s, n) == IF n = 0 THEN s ELSE undo_n(undo(s), n - 1)

\* C1: an undo issued right after a mutating command that took effect leaves
\* fragments (ids, texts, order) and composed_text equal to their values before
\* the command, also when the undo stack was full before the command.
C1_UndoRestoresPriorState ==
    (g_last = "undo" /\ g_pre # <<>>) =>
        /\ plots = g_pre[1].plots
        /\ composed_text = g_pre[1].composed_text

\* an undo has just followed a command that pushed onto a full undo stack and
\* changed the document
C1_Witness ==
    /\ g_last = "undo"
    /\ g_pre # <<>>
    /\ Len(g_pre[1].undo_stack) = MAX_UNDO_HISTORY
    /\ redo_stack # <<>>
    /\ AppState(redo_stack[Len(redo_stack)]) # AppState(Self)

\* C2: undo followed at once by redo leaves fragments, composed_text and the
\* contents of the undo stack as they were right before the undo.
C2_RedoRestoresStateBeforeUndo ==
    (g_last = "redo" /\ g_pre_undo # <<>>) =>
        /\ plots = g_pre_undo[1].plots
        /\ composed_text = g_pre_undo[1].composed_text
        /\ undo_stack = g_pre_undo[1].undo_stack

\* a redo has just followed an undo that changed the document
C2_Witness ==
    /\ g_last = "redo"
    /\ g_pre_undo # <<>>
    /\ undo_stack # <<>>
    /\ undo_stack[Len(undo_stack)] # AppState(Self)

\* C3: right after a mutating command that took effect the redo stack is empty,
\* however many undos came before, and a redo then changes nothing.
C3_MutationClearsRedo ==
    g_last \in Mutating =>
        /\ redo_stack = <<>>
        /\ redo(Self) = Self

\* a mutating command has just run in a state that had pending redo entries
C3_Witness ==
    /\ g_last \in Mutating
    /\ g_pre # <<>>
    /\ g_pre[1].redo_stack # <<>>

\* C4: the fragment list holds at least one fragment in every reachable state,
\* also after the load of a file whose "plots" list is empty.
C4_FragmentsNeverEmpty == Len(plots) >= 1

\* C5: the undo stack and the redo stack each hold at most MAX_UNDO_HISTORY
\* snapshots in every reachable state.
C5_StacksBounded ==
    /\ Len(undo_stack) <= MAX_UNDO_HISTORY
    /\ Len(redo_stack) <= MAX_UNDO_HISTORY

\* a mutating command has just pushed onto a full undo stack
C5_Witness ==
    /\ g_last \in Mutating
    /\ g_pre # <<>>
    /\ Len(g_pre[1].undo_stack) = MAX_UNDO_HISTORY
    /\ Len(undo_stack) = MAX_UNDO_HISTORY

\* C6: a push onto a full undo stack drops the oldest entry: the stack then holds
\* the MAX_UNDO_HISTORY - 1 most recent earlier snapshots followed by the new
\* one, so exactly MAX_UNDO_HISTORY undos succeed and they end at the oldest
\* surviving snapshot, not at the evicted one.
C6_EvictsOldest ==
    (g_last \in Mutating /\ g_pre # <<>>
        /\ Len(g_pre[1].undo_stack) = MAX_UNDO_HISTORY) =>
        /\ undo_stack = Append(Tail(g_pre[1].undo_stack), AppState(g_pre[1]))
        /\ LET back == undo_n(Self, MAX_UNDO_HISTORY)
           IN /\ AppState(back) = Head(Tail(g_pre[1].undo_stack) \o <<AppState(g_pre[1])>>)
              /\ back.undo_stack = <<>>
              /\ undo(back) = back

\* a push onto a full stack whose oldest entry differs from the one after it
C6_Witness ==
    /\ g_last \in Mutating
    /\ g_pre # <<>>
    /\ Len(g_pre[1].undo_stack) = MAX_UNDO_HISTORY
    /\ Head(g_pre[1].undo_stack) # Head(undo_stack)

\* C7: within one document lifetime every id assigned by add_plot_after is
\* greater than every id assigned by an earlier add_plot_after and differs from
\* the id of every fragment in the list, so no two fragments share an id.
C7_IdsIncreasingAndUnique ==
    /\ \A i, j \in 1..Len(plots) : i # j => plots[i].id # plots[j].id
    /\ (g_last = "add_plot_after" /\ g_pre # <<>>) =>
          /\ g_pre[1].next_id > g_pre[1].max_id
          /\ \A i \in 1..Len(g_pre[1].plots) : g_pre[1].plots[i].id # g_pre[1].next_id

\* C8: next_id is greater than the id of every fragment in the list in every
\* reachable state, also after a load followed by an undo or a redo.
C8_NextIdAboveLiveIds == \A i \in 1..Len(plots) : next_id > plots[i].id

\* C9: a deferred plot action recorded with index i is applied only while i is
\* still an index of the fragment list; no out-of-range insert or swap happens.
C9_DeferredIndexValid ==
    /\ g_dispatch # <<>> => g_dispatch[1].index < g_dispatch[1].len
    /\ panic \notin {"add_plot_after", "move_plot_up", "move_plot_down"}

\* every occurrence of needle in text from offset p on, in ascending order
RECURSIVE occurrences(_, _, _)
occurrences(text, needle, p) ==
    IF p > Len(text) THEN <<>>
    ELSE (IF occurs_at(text, needle, p)
          THEN <<[start |-> p, end |-> p + Len(needle)]>> ELSE <<>>)
         \o occurrences(text, needle, p + 1)

RECURSIVE occurrences_in_plots(_, _)
occurrences_in_plots(s, i) ==
    IF i > Len(s.plots) THEN <<>>
    ELSE tagged(occurrences(s.plots[i].text, s.search_text, 0), "Plot", <<i - 1>>)
         \o occurrences_in_plots(s, i + 1)

\* C10: for every fragment text, composed text and non-empty needle, also a
\* needle whose first character takes more than one byte, search completes and
\* reports every occurrence with start = its byte offset and end = start + the
\* byte length of the needle.
C10_SearchCompletes ==
    /\ panic # "search"
    /\ (g_last = "search" /\ search_text # <<>>) =>
          search_results = occurrences_in_plots(Self, 1)
              \o tagged(occurrences(composed_text, search_text, 0), "ComposedText", <<>>)


\* the names of the rejected calls and delete events of this frame, in order
CallNames == [k \in 1..Len(g_calls) |-> g_calls[k].name]

Events == { g_calls[k].name : k \in 1..Len(g_calls) }

\* every logged call or event of that name left the controller fields alone
Kept(name, effect) ==
    \A k \in 1..Len(g_calls) :
        (g_calls[k].name = name /\ g_calls[k].effect = effect) =>
            g_calls[k].before = g_calls[k].after

\* the fields a delete request and a confirm that removes nothing leave alone
Document(s) ==
    [plots |-> s.plots, composed_text |-> s.composed_text, next_id |-> s.next_id,
     undo_stack |-> s.undo_stack, redo_stack |-> s.redo_stack,
     is_dirty |-> s.is_dirty]

\* C11: deletion is two-phase. A delete request only stores the token: the
\* fragments, composed_text, both stacks and the dirty flag are as before.
\* remove_plot runs only right after the "yes" of the confirmation window,
\* which is on screen only while a token is pending. The "no" button clears
\* the token and changes nothing else. After a "yes" or a "no" no token is
\* pending, until a later request stores one.
C11_DeleteIsTwoPhase ==
    /\ Kept("request_delete", TRUE)
    /\ Kept("delete_no", TRUE)
    /\ \A k \in 1..Len(g_calls) :
            g_calls[k].name = "remove_plot" => k > 1 /\ g_calls[k - 1].name = "delete_yes"
    /\ (Live /\ delete_confirm_id # <<>>) =>
            /\ delete_dialog(Self, In("delete_no"))
                    = Log("delete_no", TRUE, Self, [Self EXCEPT !.delete_confirm_id = <<>>])
            /\ delete_dialog(Self, In("delete_yes")).delete_confirm_id = <<>>
    /\ (panic = "" /\ Events \cap {"delete_yes", "delete_no"} # {}) =>
            IF "request_delete" \in Events THEN delete_confirm_id # <<>>
            ELSE delete_confirm_id = <<>>
    /\ (panic = "" /\ "request_delete" \in Events) => delete_confirm_id # <<>>

\* a confirmed delete has removed a fragment and no token is pending
C11_Witness ==
    /\ CallNames = <<"delete_yes", "remove_plot">>
    /\ g_calls[2].effect
    /\ delete_confirm_id = <<>>
    /\ panic = ""

\* C12: the "yes" of the confirmation window with token id removes the fragment
\* whose id is the token, wherever it now stands: exactly one fragment carries
\* the id, the list afterwards is the list without it, and the snapshot pushed
\* is the state before. When no fragment carries the id, or a single fragment
\* remains, nothing is removed and nothing is pushed.
C12_ConfirmRemovesTokenFragment ==
    (panic = "" /\ delete_confirm_id # <<>>) =>
        LET t == delete_dialog(Self, In("delete_yes"))
            hits == { k \in 1..Len(plots) : plots[k].id = delete_confirm_id[1] }
        IN IF hits = {} \/ Len(plots) <= 1
           THEN Document(t) = Document(Self)
           ELSE /\ Cardinality(hits) = 1
                /\ \A k \in hits : t.plots = Remove(plots, k - 1)
                /\ t.undo_stack # <<>>
                /\ t.undo_stack[Len(t.undo_stack)] = AppState(Self)
                /\ t.panic = ""

\* the fields of StoryComposerApp, without the history variables
Program(s) ==
    [plots |-> s.plots, composed_text |-> s.composed_text, next_id |-> s.next_id,
     current_file_path |-> s.current_file_path, undo_stack |-> s.undo_stack,
     redo_stack |-> s.redo_stack, search_text |-> s.search_text,
     replace_text |-> s.replace_text, search_results |-> s.search_results,
     delete_confirm_id |-> s.delete_confirm_id, pending_action |-> s.pending_action,
     is_dirty |-> s.is_dirty, show_close_confirm |-> s.show_close_confirm,
     closed |-> s.closed, panic |-> s.panic, files |-> s.files]

\* C13: a load of a path that cannot be read or does not parse returns Err and
\* leaves every field of the program as it was: no snapshot is pushed, nothing
\* of the content is installed and the current path is not set.
C13_FailedLoadChangesNothing ==
    /\ Kept("load_file", FALSE)
    /\ \A p \in Paths :
            (Live /\ files[p].kind # "json") =>
                /\ ~load_file(Self, p).ok
                /\ Program(load_file(Self, p).app) = Program(Self)

\* an open has failed on a modified document that has a path and a history
C13_Witness ==
    /\ CallNames = <<"load_file">>
    /\ ~g_calls[1].effect
    /\ is_dirty
    /\ current_file_path # <<>>
    /\ undo_stack # <<>>

\* C14: a save whose write fails leaves fragments, composed_text, next_id, both
\* stacks, the dirty flag and the current path as they were, so the dirty flag
\* is cleared by a save only when the write succeeds; after a successful save
\* the flag is false, the current path is set and the file at that path holds
\* the document.
C14_FailedSaveChangesNothing ==
    /\ Kept("save_file", FALSE)
    /\ g_last = "save_file" =>
            /\ ~is_dirty
            /\ current_file_path # <<>>
            /\ g_written[current_file_path[1]] # <<>> =>
                    files[current_file_path[1]] = to_string_pretty(AppState(Self))

\* a save has failed on a modified document with a path and a history
C14_Witness ==
    /\ CallNames = <<"save_file">>
    /\ ~g_calls[1].effect
    /\ is_dirty
    /\ undo_stack # <<>>
    /\ current_file_path # <<>>

\* C15 as claimed: after a command that pushed a snapshot the last entry of
\* undo_stack is the state before the command and is_dirty is true, and
\* is_dirty is true in every state reached since such a command without a
\* successful save or a new_document in between.
C15_DirtyUntilSaveOrNew ==
    /\ (g_last \in Mutating /\ g_pre # <<>>) =>
            /\ undo_stack # <<>>
            /\ undo_stack[Len(undo_stack)] = AppState(g_pre[1])
            /\ is_dirty
    /\ g_mutated => is_dirty

\* C15 amended: as claimed, except that the "yes" of the close confirmation
\* also clears is_dirty, in the frame that tells the window to close.
C15_DirtyUntilSaveNewOrClose ==
    /\ (g_last \in Mutating /\ g_pre # <<>>) =>
            /\ undo_stack # <<>>
            /\ undo_stack[Len(undo_stack)] = AppState(g_pre[1])
            /\ is_dirty
    /\ g_mutated => (is_dirty \/ (closed /\ g_last = "close"))

\* a command pushed a snapshot; an undo and a failed save followed
C15_Witness ==
    /\ g_mutated
    /\ is_dirty
    /\ g_last = "undo"
    /\ "save_file" \in Events

\* C16: undo and redo leave is_dirty as it was, with an empty and with a
\* non-empty stack, called directly or through their menu items and shortcuts.
C16_UndoRedoKeepDirty ==
    /\ Live =>
            /\ undo(Self).is_dirty = is_dirty
            /\ redo(Self).is_dirty = is_dirty
    /\ \A kind \in {"menu_undo", "menu_redo", "ctrl_z", "ctrl_y"} :
            Live =>
                shortcuts(menu_bar(Self, In(kind)), In(kind)).is_dirty = is_dirty

\* an undo has changed a saved document, and is_dirty is still false
C16_Witness ==
    /\ g_last = "undo"
    /\ g_calls = <<>>
    /\ ~is_dirty
    /\ redo_stack # <<>>
    /\ AppState(Self) # g_saved

\* C17: is_dirty reports unsaved changes: whenever the fragments or
\* composed_text differ from what they were at the last successful save or
\* new-document reset, is_dirty is true, also after an undo or a redo on a
\* document that was just saved. The frame in which the close confirmation
\* discards the changes is left out.
C17_DirtyReportsUnsavedChanges ==
    (AppState(Self) # g_saved /\ ~(closed /\ g_last = "close")) => is_dirty

\* the state new_document leaves
Fresh(s) ==
    /\ s.plots = <<[id |-> 0, text |-> <<>>]>>
    /\ s.composed_text = <<>>
    /\ s.next_id = 1
    /\ s.current_file_path = <<>>
    /\ s.undo_stack = <<>>
    /\ s.redo_stack = <<>>
    /\ ~s.is_dirty

\* C18: from every state in which it can be called new_document leaves one fragment with id 0
\* and empty text, an empty composed_text, next_id 1, no path, two empty
\* stacks and is_dirty false; an undo or a redo right after it changes nothing.
C18_NewDocumentResets ==
    /\ Live =>
            LET t == new_document(Self)
            IN Fresh(t) /\ undo(t) = t /\ redo(t) = t
    /\ g_last = "new_document" =>
            Fresh(Self) /\ undo(Self) = Self /\ redo(Self) = Self

\* new_document has replaced a document with several fragments and a history
C18_Witness ==
    /\ g_last = "new_document"
    /\ g_pre # <<>>
    /\ Len(g_pre[1].plots) > 1
    /\ g_pre[1].undo_stack # <<>>
    /\ g_pre[1].redo_stack # <<>>
    /\ g_pre[1].next_id > 1

\* C19: a successful load of a path returns the fragments (ids, texts, order)
\* and the composed_text that the last successful save wrote there, whatever
\* commands ran in between; a load right after the save returns the document
\* as it is.
C19_SaveLoadRoundTrip ==
    /\ (g_last = "load_file" /\ g_written[current_file_path[1]] # <<>>) =>
            AppState(Self) = g_written[current_file_path[1]][1]
    /\ (g_last = "save_file" /\ panic = "" /\ g_written[current_file_path[1]] # <<>>) =>
            LET r == load_file(Self, current_file_path[1])
            IN r.ok /\ AppState(r.app) = AppState(Self)

\* a document with a line break was saved, changed and loaded back
C19_Witness ==
    /\ g_last = "load_file"
    /\ g_written[current_file_path[1]] # <<>>
    /\ g_pre # <<>>
    /\ AppState(g_pre[1]) # AppState(Self)
    /\ \E i \in 1..Len(plots) : \E k \in 1..Len(plots[i].text) : plots[i].text[k] = 10

\* C20: remove_plot on a single fragment, move_plot_up on index 0,
\* move_plot_down on the last index and add_plot_after on a full list return
\* the state unchanged: fragments, composed_text, next_id, both stacks and
\* is_dirty are as before, no snapshot is pushed and redo_stack survives; so it
\* is for every such call a frame made.
C20_BoundaryCommandsAreNoOps ==
    /\ Live =>
            /\ move_plot_up(Self, 0) = Self
            /\ Len(plots) >= 1 => move_plot_down(Self, Len(plots) - 1) = Self
            /\ Len(plots) = 1 => \A i \in 0..(MAX_PLOTS - 1) : remove_plot(Self, i) = Self
            /\ Len(plots) >= MAX_PLOTS =>
                    \A i \in 0..(MAX_PLOTS - 1) : add_plot_after(Self, i) = Self
    /\ \A name \in {"add_plot_after", "remove_plot", "move_plot_up", "move_plot_down"} :
            Kept(name, FALSE)

\* a move down recorded for the first of two fragments was applied after an
\* undo had left a single fragment: nothing was pushed, redo_stack survived
C20_Witness ==
    /\ g_dispatch # <<>>
    /\ g_dispatch[1].act = "MoveDown"
    /\ g_dispatch[1].index = g_dispatch[1].len - 1
    /\ CallNames = <<"move_plot_down">>
    /\ ~g_calls[1].effect
    /\ g_last = "undo"
    /\ redo_stack # <<>>
    /\ panic = ""

\* C21: the fragment list holds at most MAX_PLOTS fragments in every reachable
\* state, and so does every snapshot on the undo stack and on the redo stack,
\* also after the load of a file that parses.
C21_FragmentsCapped ==
    /\ Len(plots) <= MAX_PLOTS
    /\ \A k \in 1..Len(undo_stack) : Len(undo_stack[k].plots) <= MAX_PLOTS
    /\ \A k \in 1..Len(redo_stack) : Len(redo_stack[k].plots) <= MAX_PLOTS

\* the texts of the first n fragments of v, in list order, with "\n\n---\n\n"
\* between neighbours
RECURSIVE joined(_, _)
joined(v, n) ==
    IF n = 0 THEN <<>>
    ELSE IF n = 1 THEN v[1].text
    ELSE joined(v, n - 1) \o <<10, 10, 45, 45, 45, 10, 10>> \o v[n].text

\* C22: right after compose, composed_text is the texts of the fragments in
\* list order with the separator "\n\n---\n\n" between neighbours only (a single
\* fragment gives its text alone), and the fragment list and next_id are as
\* they were before the call.
C22_ComposeJoinsInOrder ==
    (g_last = "compose" /\ g_pre # <<>>) =>
        /\ composed_text = joined(plots, Len(plots))
        /\ plots = g_pre[1].plots
        /\ next_id = g_pre[1].next_id

\* compose has joined two fragments, the first with a text, and changed
\* composed_text
C22_Witness ==
    /\ g_last = "compose"
    /\ g_pre # <<>>
    /\ Len(plots) >= 2
    /\ plots[1].text # <<>>
    /\ composed_text # g_pre[1].composed_text
    /\ composed_text = plots[1].text \o SEPARATOR \o joined(Tail(plots), Len(plots) - 1)

\* C23: compose is idempotent on the document. A compose applied right after a
\* compose leaves fragments, composed_text and every other field as the first
\* left them and only pushes the composed document onto the undo stack (dropping
\* the oldest entry of a full stack); so a compose of a document whose
\* composed_text is already the composition changes neither.
C23_ComposeIsIdempotent ==
    /\ (g_last = "compose" /\ Live) =>
            LET t == compose(Self)
            IN /\ AppState(t) = AppState(Self)
               /\ [t EXCEPT !.undo_stack = undo_stack] = Self
               /\ t.undo_stack =
                    (IF Len(undo_stack) = MAX_UNDO_HISTORY
                     THEN Tail(undo_stack) ELSE undo_stack) \o <<AppState(Self)>>
    /\ (g_last = "compose" /\ g_pre # <<>>
            /\ g_pre[1].composed_text = joined(g_pre[1].plots, Len(g_pre[1].plots))) =>
            AppState(Self) = AppState(g_pre[1])

\* a second compose has followed a compose that changed composed_text: the
\* document is as the first left it and the undo stack holds it
C23_Witness ==
    /\ g_last = "compose"
    /\ g_pre # <<>>
    /\ AppState(g_pre[1]) = AppState(Self)
    /\ Len(plots) >= 2
    /\ Len(undo_stack) >= 2
    /\ undo_stack[Len(undo_stack)] = AppState(Self)
    /\ undo_stack[Len(undo_stack) - 1] # AppState(Self)
    /\ undo_stack[Len(undo_stack) - 1].plots = plots

\* the place of a search result in the order search reports them: fragments in
\* list order first, composed_text last
Place(r) == IF r.location = "Plot" THEN r.plot_index[1] ELSE MAX_PLOTS + 1

\* the text a search result points into
Searched(s, r) == IF r.location = "Plot" THEN s.plots[r.plot_index[1] + 1].text
                  ELSE s.composed_text

\* C24: for a non-empty needle search returns, and its results are exactly the
\* occurrences of the needle, overlapping ones included: every result lies on an
\* occurrence and has end = start + length of the needle, every occurrence in a
\* fragment (tagged Plot with the fragment index) and in composed_text (tagged
\* ComposedText) has one result, and the results stand in the order fragment 0,
\* fragment 1, ..., composed_text, by ascending start within one text. For an
\* empty needle the result list is empty.
C24_SearchReportsEveryOccurrence ==
    /\ (search_text # <<>> /\ (g_last = "search" \/ panic = "search")) =>
          /\ panic = ""
          /\ \A k \in 1..Len(search_results) :
                LET r == search_results[k]
                IN /\ r.location \in {"Plot", "ComposedText"}
                   /\ r.location = "Plot" =>
                        r.plot_index # <<>> /\ r.plot_index[1] < Len(plots)
                   /\ r.location = "ComposedText" => r.plot_index = <<>>
                   /\ occurs_at(Searched(Self, r), search_text, r.start)
                   /\ r.end = r.start + Len(search_text)
          /\ \A i \in 1..Len(plots) : \A p \in 0..Len(plots[i].text) :
                occurs_at(plots[i].text, search_text, p) =>
                    \E k \in 1..Len(search_results) :
                        /\ search_results[k].location = "Plot"
                        /\ search_results[k].plot_index = <<i - 1>>
                        /\ search_results[k].start = p
          /\ \A p \in 0..Len(composed_text) :
                occurs_at(composed_text, search_text, p) =>
                    \E k \in 1..Len(search_results) :
                        /\ search_results[k].location = "ComposedText"
                        /\ search_results[k].start = p
          /\ \A k, l \in 1..Len(search_results) :
                k < l =>
                    \/ Place(search_results[k]) < Place(search_results[l])
                    \/ /\ Place(search_results[k]) = Place(search_results[l])
                       /\ search_results[k].start < search_results[l].start
    /\ (g_last = "search" /\ search_text = <<>>) => search_results = <<>>

\* text from offset pos on, with every occurrence of from that starts at or
\* after the end of the one replaced before it replaced by to
RECURSIVE replaced(_, _, _, _)
replaced(text, from, to, pos) ==
    LET p == find_from(text, from, pos)
    IN IF p = -1 THEN SubSeq(text, pos + 1, Len(text))
       ELSE SubSeq(text, pos + 1, p) \o to \o replaced(text, from, to, p + Len(from))

\* C25: right after a replace_all with a non-empty needle every fragment text
\* and composed_text are the texts before with the occurrences of the needle
\* replaced left to right, none overlapping one already replaced and the
\* replacement not scanned again; the fragments keep their ids, order and
\* number, next_id is as before and search_results is empty.
C25_ReplaceAllRewritesEveryText ==
    (g_last = "replace_all" /\ g_pre # <<>>) =>
        /\ search_text # <<>>
        /\ Len(plots) = Len(g_pre[1].plots)
        /\ \A i \in 1..Len(plots) :
              /\ plots[i].id = g_pre[1].plots[i].id
              /\ plots[i].text = replaced(g_pre[1].plots[i].text, search_text, replace_text, 0)
        /\ composed_text = replaced(g_pre[1].composed_text, search_text, replace_text, 0)
        /\ next_id = g_pre[1].next_id
        /\ search_results = <<>>

\* "aa" was replaced by "b" in "aaa", which gave "ba", and in the "aa" of the
\* second fragment
C25_Witness ==
    /\ g_last = "replace_all"
    /\ g_pre # <<>>
    /\ search_text = <<97, 97>>
    /\ replace_text = <<98>>
    /\ Len(plots) = 2
    /\ g_pre[1].plots[1].text = <<97, 97, 97>>
    /\ plots[1].text = <<98, 97>>
    /\ plots[2].text = <<98>>

\* C26: replace_all with an empty needle changes nothing: fragments,
\* composed_text, both stacks, the dirty flag, the stored search results and
\* every other field of the program are as before, whatever replace_text holds;
\* so it is for every such call a frame made.
C26_EmptyNeedleReplacesNothing ==
    /\ (Live /\ search_text = <<>>) =>
            /\ replace_all(Self) = Self
            /\ \A to \in Replacements :
                    LET s == [Self EXCEPT !.replace_text = to]
                    IN replace_all(s) = s
    /\ Kept("replace_all", FALSE)
    /\ \A k \in 1..Len(g_calls) :
            (g_calls[k].name = "replace_all" /\ panic = "") =>
                g_calls[k].effect = FALSE /\ search_text = <<>>

\* the replace-all button was pressed with an empty needle and a replacement
\* text on a modified document with a history: the search results stored
\* before are still there
C26_Witness ==
    /\ CallNames = <<"replace_all">>
    /\ ~g_calls[1].effect
    /\ search_text = <<>>
    /\ replace_text # <<>>
    /\ search_results # <<>>
    /\ undo_stack # <<>>
    /\ is_dirty

\* the commands that change the fragment list only
ListCommands == { "add_plot_after", "remove_plot", "move_plot_up", "move_plot_down" }

\* C27: composed_text is not kept in sync with the fragments. add_plot_after,
\* remove_plot, move_plot_up and move_plot_down leave composed_text as it was
\* before the call, and so does typing into a fragment; a save, a search, a
\* delete request and the close confirmation leave it alone as well, so that
\* among the commands only compose, replace_all, load, new_document, undo and
\* redo assign it.
C27_ComposedTextIsNotSynced ==
    /\ (g_last \in ListCommands /\ g_pre # <<>>) =>
            composed_text = g_pre[1].composed_text
    /\ \A name \in ListCommands : Kept(name, FALSE)
    /\ Kept("request_delete", TRUE)
    /\ Live =>
            /\ \A i \in 0..(Len(plots) - 1), t \in EditTexts :
                  central_panel(Self, [In("edit_plot") EXCEPT !.index = i, !.text = t])
                        .composed_text = composed_text
            /\ search(Self).composed_text = composed_text
            /\ \A p \in Paths : save_file(Self, p, "ok").app.composed_text = composed_text
            /\ close_confirm(Self, In("close_yes")).composed_text = composed_text

\* a fragment was added, removed or moved while composed_text held the
\* composition of the list before: it still holds that and is now stale
C27_Witness ==
    /\ g_last \in ListCommands
    /\ g_pre # <<>>
    /\ composed_text # <<>>
    /\ composed_text = joined(g_pre[1].plots, Len(g_pre[1].plots))
    /\ composed_text # joined(plots, Len(plots))

\* the deferred action of this frame was act, it passed its guard and it is
\* the last call that took effect
Applied(act, name) ==
    /\ g_dispatch # <<>>
    /\ g_dispatch[1].act = act
    /\ g_last = name
    /\ g_pre # <<>>
    /\ name \notin Events

\* C28: add_plot_after(i) on a list of n < MAX_PLOTS fragments with i < n
\* gives n + 1 fragments; the new one stands at position i + 1 (counted from
\* 0), has an empty text and the id that next_id held before the call; next_id
\* is one more than before, and the fragments that were there keep id, text
\* and relative order.
C28_AddInsertsAfterIndex ==
    (Applied("AddAfter", "add_plot_after") /\ g_dispatch[1].index < g_dispatch[1].len) =>
        LET i == g_dispatch[1].index
            old == g_pre[1].plots
            n == Len(old)
        IN /\ n = g_dispatch[1].len
           /\ n < MAX_PLOTS
           /\ Len(plots) = n + 1
           /\ plots[i + 2] = [id |-> g_pre[1].next_id, text |-> <<>>]
           /\ next_id = g_pre[1].next_id + 1
           /\ \A k \in 1..n : plots[IF k <= i + 1 THEN k ELSE k + 1] = old[k]

\* a fragment was added after the first of two fragments that differ
C28_Witness ==
    /\ Applied("AddAfter", "add_plot_after")
    /\ g_dispatch[1].index = 0
    /\ Len(plots) = 3
    /\ plots[1] = g_pre[1].plots[1]
    /\ plots[3] = g_pre[1].plots[2]
    /\ plots[1] # plots[3]
    /\ plots[2].id = g_pre[1].next_id

\* list v is list old with the fragments at positions i and j (counted from 0)
\* exchanged and every other position as it was
Exchanged(v, old, i, j) ==
    /\ Len(v) = Len(old)
    /\ v[i + 1] = old[j + 1]
    /\ v[j + 1] = old[i + 1]
    /\ \A k \in 1..Len(old) : (k # i + 1 /\ k # j + 1) => v[k] = old[k]

\* C29: move_plot_up(i) with 0 < i < len exchanges the fragments at i and
\* i - 1, move_plot_down(i) with i < len - 1 those at i and i + 1; every other
\* position, the length and the fragments as a collection are as before, and
\* move_plot_down(i - 1) right after move_plot_up(i) restores the list.
C29_MovesSwapNeighbours ==
    /\ (Applied("MoveUp", "move_plot_up")
            /\ 0 < g_dispatch[1].index /\ g_dispatch[1].index < g_dispatch[1].len) =>
            LET i == g_dispatch[1].index
            IN /\ Exchanged(plots, g_pre[1].plots, i, i - 1)
               /\ next_id = g_pre[1].next_id
               /\ move_plot_down(Self, i - 1).plots = g_pre[1].plots
    /\ (Applied("MoveDown", "move_plot_down")
            /\ g_dispatch[1].index < g_dispatch[1].len - 1) =>
            LET i == g_dispatch[1].index
            IN /\ Exchanged(plots, g_pre[1].plots, i, i + 1)
               /\ next_id = g_pre[1].next_id
               /\ move_plot_up(Self, i + 1).plots = g_pre[1].plots

\* the last of three fragments that differ was moved up: it changed places
\* with the second, the first stayed
C29_Witness ==
    /\ Applied("MoveUp", "move_plot_up")
    /\ g_dispatch[1].index = 2
    /\ Len(plots) = 3
    /\ plots[1] = g_pre[1].plots[1]
    /\ plots[2] = g_pre[1].plots[3]
    /\ plots[3] = g_pre[1].plots[2]
    /\ plots[2] # plots[3]

\* C30: undo with an empty undo stack and redo with an empty redo stack change
\* nothing: fragments, composed_text, next_id, both stacks, the dirty flag, the
\* current path and every other field are as before; undo on an empty undo
\* stack pushes nothing onto the redo stack. So it is for every such call a
\* frame made through the menu or a shortcut.
C30_EmptyStackUndoRedoAreNoOps ==
    /\ (Live /\ undo_stack = <<>>) => undo(Self) = Self
    /\ (Live /\ redo_stack = <<>>) => redo(Self) = Self
    /\ Kept("undo", FALSE)
    /\ Kept("redo", FALSE)
    /\ \A k \in 1..Len(g_calls) :
            /\ g_calls[k].name = "undo" =>
                    ~g_calls[k].effect /\ g_calls[k].before.undo_stack = <<>>
            /\ g_calls[k].name = "redo" =>
                    ~g_calls[k].effect /\ g_calls[k].before.redo_stack = <<>>

\* undo was called with an empty undo stack on a modified document that has a
\* path and redo entries: the redo stack is as it was
C30_Witness ==
    /\ CallNames = <<"undo">>
    /\ ~g_calls[1].effect
    /\ undo_stack = <<>>
    /\ redo_stack # <<>>
    /\ redo_stack = g_calls[1].before.redo_stack
    /\ is_dirty
    /\ current_file_path # <<>>

\* C31: the undo stack and the redo stack together hold at most
\* MAX_UNDO_HISTORY snapshots in every reachable state, so the pop_front of
\* undo and of redo is never reached: undo puts the current document on top of
\* the redo stack and redo puts it on top of the undo stack, and both keep
\* every entry that was there.
C31_HistoryHoldsAtMostCap ==
    /\ Len(undo_stack) + Len(redo_stack) <= MAX_UNDO_HISTORY
    /\ (g_last = "undo" /\ g_pre_undo # <<>>) =>
            /\ redo_stack = Append(g_pre_undo[1].redo_stack, AppState(g_pre_undo[1]))
            /\ Append(undo_stack, AppState(Self)) = g_pre_undo[1].undo_stack
    /\ (Live /\ undo_stack # <<>>) =>
            /\ Len(redo_stack) + 1 <= MAX_UNDO_HISTORY
            /\ undo(Self).redo_stack = Append(redo_stack, AppState(Self))
    /\ (Live /\ redo_stack # <<>>) =>
            /\ Len(undo_stack) + 1 <= MAX_UNDO_HISTORY
            /\ redo(Self).undo_stack = Append(undo_stack, AppState(Self))

\* every snapshot of a full history has been undone: the redo stack is full
\* and holds all of them
C31_Witness ==
    /\ g_last = "undo"
    /\ g_pre_undo # <<>>
    /\ undo_stack = <<>>
    /\ Len(redo_stack) = MAX_UNDO_HISTORY
    /\ redo_stack[1] # redo_stack[MAX_UNDO_HISTORY]

\* n redos in a row
RECURSIVE redo_n(_, _)
redo_n(s, n) == IF n = 0 THEN s ELSE redo_n(redo(s), n - 1)

\* C32: linear history. After n <= MAX_UNDO_HISTORY effective mutating commands
\* that started from an empty history, with direct edits between them and no
\* new_document, the undo stack holds the documents before each command in
\* order; each undo restores the document before the latest command not yet
\* undone, so n undos arrive at the document before the first command; the
\* redos walk the same line forward and n of them arrive at the document before
\* the first undo; the undo or redo after the n-th changes nothing. A program
\* that has panicked has no history left to walk.
C32_HistoryIsLinear ==
    (panic = "" /\ g_history # <<>>) =>
        LET h == g_history[1]
            n == Len(h.pre)
            k == h.undone
            bottom == undo_n(Self, n)
        IN /\ k <= n
           /\ n <= MAX_UNDO_HISTORY
           /\ undo_stack = SubSeq(h.pre, 1, n - k)
           /\ Len(redo_stack) = k
           /\ k > 0 =>
                /\ AppState(Self) = h.pre[n - k + 1]
                /\ redo_stack[1] = h.top[1]
                /\ \A j \in 2..k : redo_stack[j] = h.pre[n - j + 2]
           /\ (k = 0 /\ h.top # <<>>) => AppState(Self) = h.top[1]
           /\ (Live /\ k = 0 /\ n > 0) =>
                /\ \A j \in 1..n : AppState(undo_n(Self, j)) = h.pre[n - j + 1]
                /\ undo(bottom) = bottom
                /\ \A j \in 1..(n - 1) : AppState(redo_n(bottom, j)) = h.pre[j + 1]
                /\ AppState(redo_n(bottom, n)) = AppState(Self)
                /\ redo(redo_n(bottom, n)) = redo_n(bottom, n)

\* a full history of distinct documents has been undone, one undo after the
\* other, to the document before the first command
C32_Witness ==
    /\ g_history # <<>>
    /\ g_last = "undo"
    /\ g_history[1].undone = MAX_UNDO_HISTORY
    /\ Len(g_history[1].pre) = MAX_UNDO_HISTORY
    /\ AppState(Self) = g_history[1].pre[1]
    /\ \A i, j \in 1..MAX_UNDO_HISTORY : i # j => g_history[1].pre[i] # g_history[1].pre[j]
    /\ g_history[1].top[1] # g_history[1].pre[MAX_UNDO_HISTORY]
    /\ undo_stack = <<>>

\* C33: a pending delete confirmation does not outlive its document. When
\* new_document or a load that parsed has replaced the document while the
\* delete token was set, the "yes" button of the confirmation window removes
\* no fragment.
C33_TokenDiesWithDocument ==
    ~ /\ g_replaced
      /\ \E k \in 1..Len(g_calls) : g_calls[k].name = "remove_plot" /\ g_calls[k].effect

====
